---- MODULE Spec2Model ----
(***************************************************************************)
(* A model of examples/c/proactor/direct.c: one process that listens, and  *)
(* on every accepted connection acts as AMQP sender or receiver depending  *)
(* on the role of the link the peer attaches.  The state is app_data_t,    *)
(* exit_code, the position of run()'s loop and, per connection, what the   *)
(* proton engine holds for its connection, session and link.  There is one *)
(* action per event type that handle() switches on; the action is the      *)
(* arrival of the event (what the peer or the engine did) together with    *)
(* the whole handler.                                                      *)
(*                                                                         *)
(* Environment assumptions (the engine and the peer are not in src/):      *)
(*  - endpoint events of one connection arrive in protocol order           *)
(*    (accept, init, bound, remote open, session, link, closes, transport  *)
(*    closed);                                                             *)
(*  - a peer sends a delivery only while the receiving link has credit;    *)
(*  - a peer reports the outcome of a delivery once (it settles with the   *)
(*    disposition);                                                        *)
(*  - the listener numbers the connections in the order it accepts them,   *)
(*    and a peer connects once the peer before it has attached its link    *)
(*    (the handshake handlers touch nothing but their own connection);     *)
(*  - in unbounded mode (message_count = 0) one peer connects: a receiving *)
(*    link then walks through BATCH credit values;                         *)
(*  - the message encode_message builds, { "sequence": sent }, fits the    *)
(*    initial buffer; the sender run of SenderSpec and LiveSpec also takes *)
(*    encoded lengths that do not.                                         *)
(***************************************************************************)
EXTENDS Integers, Sequences, FiniteSets, TLC

\* ---------------------------------------------------------------- bounds
MaxCount   == 2   \* message_count ranges over 0..MaxCount
MaxGranted == 3   \* total credit peers grant to sending links
MaxSends   == 3   \* calls of Link.Send that reach tags.Next()

\* ------------------------------------------------------ program constants
BATCH        == 1000
initial_size == 128
ShortLen     == 60    \* an encoded length that fits the initial buffer
LongLen      == 300   \* an encoded length that needs two doublings

\* app.sender: main() zeroes app_data_t and nothing assigns the field; 0 is NULL.
sender == 0

\* Two connections: the least number that shows what the connections share.
Conns   == {1, 2}
MsgLens == {ShortLen, LongLen}

VARIABLES
  message_count,   \* app.message_count
  sent,            \* app.sent
  acknowledged,    \* app.acknowledged
  received,        \* app.received
  message_buffer,  \* app.message_buffer.size, 0 while .start is NULL
  exit_code,       \* static int exit_code
  listener,        \* app.listener: "new", "open", "closing", "closed"
  conn,            \* per connection: the engine's endpoint state
  loop,            \* run(): "wait", "batch" (inside the for loop), "returned"
  lastEv,          \* the event handled last and the engine calls its handler made
  sentLog,         \* the deliveries created by the send path, in order
  granted,         \* history: total credit peers granted to sending links
  hist,            \* history: counters that only observe, and the batches open
  tags,            \* proton/message.go: var tags, the ids it has handed out
  links,           \* proton/message.go: per Link, what the engine holds for it
  sendRet          \* proton/message.go: what the last call of Link.Send returned

vars == <<message_count, sent, acknowledged, received, message_buffer,
          exit_code, listener, conn, loop, lastEv, sentLog, granted, hist,
          tags, links, sendRet>>

\* The state of the Go binding, which direct.c does not touch.
go == <<tags, links, sendRet>>

app == <<message_count, sent, acknowledged, received, message_buffer>>

\* ------------------------------------------------------------ engine calls
Call(name, arg) == [call |-> name, arg |-> arg]

\* The effect of one engine call on the endpoints of a connection.
ApplyCall(c, op) ==
  CASE op.call = "pn_connection_set_container" -> [c EXCEPT !.container = TRUE]
    [] op.call = "pn_transport_require_auth"   -> [c EXCEPT !.auth = FALSE]
    [] op.call = "pn_connection_open"          -> [c EXCEPT !.cstate = "active"]
    [] op.call = "pn_connection_close"         -> [c EXCEPT !.cstate = "closed"]
    [] op.call = "pn_session_open"             -> [c EXCEPT !.sstate = "active"]
    [] op.call = "pn_session_close"            -> [c EXCEPT !.sstate = "closed"]
    [] op.call = "pn_terminus_set_address"     -> [c EXCEPT !.target = TRUE]
    [] op.call = "pn_link_open"                -> [c EXCEPT !.lstate = "active"]
    [] op.call = "pn_link_close"               -> [c EXCEPT !.lstate = "closed"]
    [] op.call = "pn_link_flow"                -> [c EXCEPT !.credit = @ + op.arg]
    [] op.call = "pn_link_advance"             -> [c EXCEPT !.credit = @ - 1]
    [] op.call = "pn_delivery"                 -> [c EXCEPT !.unacked = @ + 1]
    [] OTHER                                   -> c

RECURSIVE ApplyCalls(_, _)
ApplyCalls(c, ops) ==
  IF ops = <<>> THEN c ELSE ApplyCalls(ApplyCall(c, Head(ops)), Tail(ops))

InitConn ==
  [phase |-> "none", role |-> "none", credit |-> 0, unacked |-> 0,
   cstate |-> "uninit", sstate |-> "uninit",
   lstate |-> "uninit", container |-> FALSE, auth |-> TRUE, target |-> FALSE]

\* A connection the proactor released after its PN_TRANSPORT_CLOSED.
Released == [InitConn EXCEPT !.phase = "tclosed", !.cstate = "closed"]

Event(type, c, cond, ops) == [type |-> type, conn |-> c, cond |-> cond, ops |-> ops]

\* --------------------------------------------------------- check_condition
\* The calls check_condition makes, and the exit code it leaves.
check_condition_ops(cond) ==
  IF cond THEN <<Call("pn_connection_close", 0)>> ELSE <<>>

check_condition_exit(cond, code) ==
  IF cond THEN 1 ELSE code

\* ----------------------------------------------------------- encode_message
\* GrowBuffer that grows the buffer to the size needed.
GrowBuffer_Exact(size, needed) == IF needed > size THEN needed ELSE size

\* The sizes the buffer goes through while pn_message_encode returns PN_OVERFLOW.
RECURSIVE GrowSizes(_, _)
GrowSizes(size, needed) ==
  IF needed > size THEN <<size>> \o GrowSizes(size * 2, needed) ELSE <<size>>

\* The size the while loop leaves: doubled until the message fits.
RECURSIVE GrowBuffer(_, _)
GrowBuffer(size, needed) ==
  IF needed > size THEN GrowBuffer(size * 2, needed) ELSE size

\* message_buffer after encoding a message of `needed` bytes.
encode_buffer(buf, needed) ==
  GrowBuffer(IF buf = 0 THEN initial_size ELSE buf, needed)

\* The sequence number encode_message puts in the message: app->sent.
encode_sequence(app_sent) == app_sent

\* pn_dtag((const char*)&app->sent, sizeof(app->sent)): the 4 bytes of the int.
pn_dtag(n) ==
  <<n % 256, (n \div 256) % 256, (n \div 65536) % 256, (n \div 16777216) % 256>>

\* -------------------------------------------------------------- handle_send
\* SendMore without the test against message_count.
SendMore_NoCount(credit, nsent, count) == credit > 0

\* SendMore without the test of the credit.
SendMore_NoCredit(credit, nsent, count) == nsent < count

SendMore(credit, nsent, count) == credit > 0 /\ nsent < count

\* NextTag taken from the counter before its increment.
NextTag_Before(n) == pn_dtag(n - 1)

\* The tag of the delivery created when the counter, already incremented, is n.
NextTag(n) == pn_dtag(n)

\* The while loop of PN_LINK_FLOW.  st: [credit, sent, buf, log, ops, nocredit].
RECURSIVE SendLoop(_, _, _)
SendLoop(st, count, lens) ==
  IF SendMore(st.credit, st.sent, count)
  THEN LET n == st.sent + 1
       IN SendLoop(
            [credit   |-> st.credit - 1,
             sent     |-> n,
             buf      |-> encode_buffer(st.buf, lens[n]),
             log      |-> Append(st.log, [tag |-> NextTag(n),
                                          sequence |-> encode_sequence(n)]),
             ops      |-> st.ops \o <<Call("pn_delivery", n),
                                      Call("pn_link_send", lens[n]),
                                      Call("pn_link_advance", 0)>>,
             nocredit |-> st.nocredit \/ st.credit <= 0],
            count, lens)
  ELSE st

\* AckDone that misses the count.
AckDone_Never(nack, count) == nack > count

\* ++app->acknowledged == app->message_count
AckDone(nack, count) == nack = count

\* ----------------------------------------------------------- handle_receive
\* InitialCredit that grants a batch whatever the count.
InitialCredit_Batch(count) == BATCH

\* app->message_count ? app->message_count : BATCH
InitialCredit(count) == IF count # 0 THEN count ELSE BATCH

NeedCredit(credit) == credit < BATCH \div 2

\* Replenish that grants a whole batch.
Replenish_Batch(credit) == BATCH

Replenish(credit) == BATCH - credit

\* ++app->received >= app->message_count
ReceiveDone(nrecv, count) == nrecv >= count

\* pn_delivery_readable(dlv) && !pn_delivery_partial(dlv), without the second test.
delivery_complete_Readable(readable, partial) == readable

\* pn_delivery_readable(dlv) && !pn_delivery_partial(dlv)
delivery_complete(readable, partial) == readable /\ ~partial

\* decode_message: the body is read and decoded, and printed if it decodes; nothing
\* is returned to the caller.
decode_message(decodes) ==
  <<Call("pn_link_recv", 0), Call("pn_message_decode", decodes)>>

\* The calls of the PN_DELIVERY case for a complete delivery, after decode_message
\* and before the counters.
AcceptCalls ==
  <<Call("pn_delivery_update", "PN_ACCEPTED"),
    Call("pn_link_advance", 0), Call("pn_delivery_settle", 0)>>

CloseCalls ==
  <<Call("pn_link_close", 0), Call("pn_session_close", 0),
    Call("pn_connection_close", 0)>>

\* ------------------------------------------------- proton/message.go: Send
\* Three links of the Go binding: two in sender role, one whose peer sends settled
\* and one whose peer does not, and one in receiver role.
GoLinks == {1, 2, 3}

IsSenderLink(l) == l \in {1, 2}

RemoteSndSettled(l) == l = 1

\* A link no Send was called on: the tags of the deliveries created on it, the
\* calls of SendBytes and Advance made on it, the deliveries settled.
NewLink == [deliveries |-> <<>>, sendBytes |-> 0, advanced |-> 0, settled |-> 0]

SendReturn(l, err, tag) == [link |-> l, err |-> err, delivery |-> tag]

\* strconv.FormatUint(n, 32), as the digits of n in base 32, most significant first.
RECURSIVE FormatUint32(_)
FormatUint32(n) ==
  IF n < 32 THEN <<n>> ELSE Append(FormatUint32(n \div 32), n % 32)

\* tags.Next(): the counter is incremented and the new value is formatted.
IdCounterNext(count) == [count |-> count + 1, id |-> FormatUint32(count + 1)]

\* The test of Send that lets every link send.
send_refused_Never(isSender) == FALSE

\* if !link.IsSender(): Send returns an error before it does anything.
send_refused(isSender) == ~isSender

\* link.Send(m): `encodes` tells whether m.Encode succeeds, `result` what
\* link.SendBytes returns ("all" bytes, "short", or "failed" for a negative code).
Send(l, encodes, result) ==
  /\ l \in GoLinks
  /\ IF send_refused(IsSenderLink(l))
     THEN /\ encodes /\ result = "all"
          /\ sendRet' = SendReturn(l, "attempt to send message on receiving link", <<>>)
          /\ UNCHANGED <<tags, links>>
     ELSE /\ tags < MaxSends
          /\ LET next == IdCounterNext(tags)
                 made == [links[l] EXCEPT !.deliveries = Append(@, next.id)]
                 sent1 == [made EXCEPT !.sendBytes = @ + 1, !.advanced = @ + 1]
             IN /\ tags' = next.count
                /\ IF ~encodes
                   THEN /\ result = "all"
                        /\ links' = [links EXCEPT ![l] = made]
                        /\ sendRet' = SendReturn(l, "cannot send mesage", <<>>)
                   ELSE IF result # "all"
                   THEN /\ links' = [links EXCEPT ![l] = sent1]
                        /\ sendRet' = SendReturn(l, IF result = "failed" THEN "send failed"
                                                    ELSE "send incomplete", next.id)
                   ELSE /\ links' = [links EXCEPT ![l] =
                                       IF RemoteSndSettled(l)
                                       THEN [sent1 EXCEPT !.settled = @ + 1] ELSE sent1]
                        /\ sendRet' = SendReturn(l, "nil", next.id)
  /\ UNCHANGED <<app, exit_code, listener, conn, loop, lastEv, sentLog, granted, hist>>

SendNext ==
  \E l \in GoLinks, encodes \in BOOLEAN, result \in {"all", "short", "failed"} :
    Send(l, encodes, result)

\* ------------------------------------------------------------------- Init
Init ==
  /\ message_count \in 0 .. MaxCount
  /\ sent = 0
  /\ acknowledged = 0
  /\ received = 0
  /\ message_buffer = 0
  /\ exit_code = 0
  /\ listener = "new"
  /\ conn = [c \in Conns |-> InitConn]
  /\ loop = "wait"
  /\ lastEv = Event("NONE", 0, FALSE, <<>>)
  /\ sentLog = <<>>
  /\ granted = 0
  /\ hist = [failSeen |-> FALSE, accepted |-> 0, sendCloses |-> 0,
             recvCloses |-> 0, noCredit |-> FALSE, open |-> 0]
  /\ tags = 0
  /\ links = [l \in GoLinks |-> NewLink]
  /\ sendRet = SendReturn(0, "none", <<>>)

\* The connections peers open: one in unbounded mode.
Peers == IF message_count = 0 THEN {1} ELSE Conns

\* ---------------------------------------------------------------- run()
\* The batches the proactor has handed out and not got back: pn_proactor_wait
\* hands one out.
proactor_wait(open) == open + 1

\* proactor_done left out of the loop.
proactor_done_Skip(open) == open

\* pn_proactor_done gives the batch back.
proactor_done(open) == open - 1

\* events = pn_proactor_wait(app->proactor)
ProactorWait ==
  /\ loop = "wait"
  /\ loop' = "batch"
  /\ hist' = [hist EXCEPT !.open = proactor_wait(@)]
  /\ UNCHANGED <<app, exit_code, listener, conn, lastEv, sentLog, granted>>
  /\ UNCHANGED go

\* pn_event_batch_next returns NULL: the for loop ends and pn_proactor_done
\* releases the batch and its events.
ProactorDone ==
  /\ loop = "batch"
  /\ loop' = "wait"
  /\ lastEv' = Event("NONE", 0, FALSE, <<>>)
  /\ hist' = [hist EXCEPT !.open = proactor_done(@)]
  /\ UNCHANGED <<app, exit_code, listener, conn, sentLog, granted>>
  /\ UNCHANGED go

\* handle_continue that also ends the loop when a transport closes.
handle_continue_Closed(type) ==
  type \notin {"PN_PROACTOR_INACTIVE", "PN_TRANSPORT_CLOSED"}

\* The value handle() returns for an event of this type: false ends run().
handle_continue(type) == type # "PN_PROACTOR_INACTIVE"

\* run(): the for loop goes on while handle() returns true.
Handled(ev) ==
  /\ lastEv' = ev
  /\ loop' = IF handle_continue(ev.type) THEN loop ELSE "returned"

\* An event of connection c whose handler only makes engine calls on c.
ConnStep(c, type, phase, ops) ==
  /\ conn' = [conn EXCEPT ![c] = [ApplyCalls(@, ops) EXCEPT !.phase = phase]]
  /\ Handled(Event(type, c, FALSE, ops))
  /\ UNCHANGED <<app, exit_code, listener, sentLog, granted, hist>>
  /\ UNCHANGED go

\* ------------------------------------------------- handle(): the endpoints
\* The phases of a connection before its link is attached.
Handshake == {"none", "accepted", "init", "bound", "ropen", "sopen"}

\* case PN_LISTENER_OPEN
ListenerOpen ==
  /\ loop = "batch"
  /\ listener = "new"
  /\ listener' = "open"
  /\ Handled(Event("PN_LISTENER_OPEN", 0, FALSE, <<>>))
  /\ UNCHANGED <<app, exit_code, conn, sentLog, granted, hist>>
  /\ UNCHANGED go

\* case PN_LISTENER_ACCEPT
ListenerAccept(c) ==
  /\ loop = "batch"
  /\ listener = "open"
  /\ c \in Peers
  /\ conn[c].phase = "none"
  /\ \A d \in Conns : d < c => conn[d].phase \notin Handshake
  /\ ConnStep(c, "PN_LISTENER_ACCEPT", "accepted", <<Call("pn_listener_accept", 0)>>)

\* case PN_CONNECTION_INIT
ConnectionInit(c) ==
  /\ loop = "batch"
  /\ conn[c].phase = "accepted"
  /\ ConnStep(c, "PN_CONNECTION_INIT", "init",
              <<Call("pn_connection_set_container", 0)>>)

\* case PN_CONNECTION_BOUND, which falls through to PN_CONNECTION_REMOTE_OPEN
ConnectionBound(c) ==
  /\ loop = "batch"
  /\ conn[c].phase = "init"
  /\ ConnStep(c, "PN_CONNECTION_BOUND", "bound",
              <<Call("pn_transport_require_auth", 0),
                Call("pn_sasl_allowed_mechs", 0),
                Call("pn_connection_open", 0)>>)

\* case PN_CONNECTION_REMOTE_OPEN
ConnectionRemoteOpen(c) ==
  /\ loop = "batch"
  /\ conn[c].phase = "bound"
  /\ ConnStep(c, "PN_CONNECTION_REMOTE_OPEN", "ropen",
              <<Call("pn_connection_open", 0)>>)

\* case PN_SESSION_REMOTE_OPEN
SessionRemoteOpen(c) ==
  /\ loop = "batch"
  /\ conn[c].phase = "ropen"
  /\ ConnStep(c, "PN_SESSION_REMOTE_OPEN", "sopen", <<Call("pn_session_open", 0)>>)

\* An event that carries a condition, on connection c: check_condition, then `ops`.
CloseStep(c, type, phase, cond, ops) ==
  LET all == check_condition_ops(cond) \o ops
  IN /\ conn' = [conn EXCEPT ![c] = [ApplyCalls(@, all) EXCEPT !.phase = phase]]
     /\ exit_code' = check_condition_exit(cond, exit_code)
     /\ hist' = [hist EXCEPT !.failSeen = @ \/ cond]
     /\ Handled(Event(type, c, cond, all))
     /\ UNCHANGED <<app, sentLog, granted, go>>

\* remote_close that leaves the close to check_condition.
remote_close_None == <<>>

\* What the remote-close cases do after check_condition.
remote_close == <<Call("pn_connection_close", 0)>>

\* case PN_TRANSPORT_CLOSED: the last event of a connection, which the proactor
\* then releases with its session and link.
TransportClosed(c, cond) ==
  /\ loop = "batch"
  /\ conn[c].phase \in {"bound", "ropen", "sopen", "lopen", "lclosed", "sclosed", "cclosed"}
  /\ LET all == check_condition_ops(cond) \o <<Call("pn_listener_close", 0)>>
     IN /\ conn' = [conn EXCEPT ![c] = Released]
        /\ Handled(Event("PN_TRANSPORT_CLOSED", c, cond, all))
  /\ exit_code' = check_condition_exit(cond, exit_code)
  /\ hist' = [hist EXCEPT !.failSeen = @ \/ cond]
  /\ listener' = IF listener = "open" THEN "closing" ELSE listener
  /\ UNCHANGED <<app, sentLog, granted>>
  /\ UNCHANGED go

\* case PN_CONNECTION_REMOTE_CLOSE
ConnectionRemoteClose(c, cond) ==
  /\ loop = "batch"
  /\ conn[c].phase \in {"ropen", "sopen", "lopen", "lclosed", "sclosed"}
  /\ CloseStep(c, "PN_CONNECTION_REMOTE_CLOSE", "cclosed", cond, remote_close)
  /\ UNCHANGED listener

\* case PN_SESSION_REMOTE_CLOSE
SessionRemoteClose(c, cond) ==
  /\ loop = "batch"
  /\ conn[c].phase \in {"sopen", "lopen", "lclosed"}
  /\ CloseStep(c, "PN_SESSION_REMOTE_CLOSE", "sclosed", cond, remote_close)
  /\ UNCHANGED listener

\* case PN_LINK_REMOTE_CLOSE: case PN_LINK_REMOTE_DETACH
LinkRemoteClose(c, type, cond) ==
  /\ loop = "batch"
  /\ conn[c].phase = "lopen"
  /\ CloseStep(c, type, "lclosed", cond, remote_close)
  /\ UNCHANGED listener

\* case PN_LISTENER_CLOSE.  The event has no connection: with the condition set,
\* check_condition calls pn_connection_close(NULL), which is undefined; the process
\* either dies there (exit_code = 1 is never reached) or the call does nothing.
ListenerClose(cond, dies) ==
  /\ loop = "batch"
  /\ \/ listener = "closing"
     \/ listener = "new" /\ cond      \* pn_proactor_listen failed
  /\ dies => cond
  /\ listener' = "closed"
  /\ hist' = [hist EXCEPT !.failSeen = @ \/ cond]
  /\ lastEv' = Event("PN_LISTENER_CLOSE", 0, cond, check_condition_ops(cond))
  /\ IF dies
     THEN loop' = "crashed" /\ UNCHANGED exit_code
     ELSE loop' = loop /\ exit_code' = check_condition_exit(cond, exit_code)
  /\ UNCHANGED <<app, conn, sentLog, granted>>
  /\ UNCHANGED go

\* case PN_PROACTOR_TIMEOUT: the calls of the handler, from the inside out.
timeout_calls(link) ==
  <<Call("pn_link_session", link), Call("pn_session_connection", link),
    Call("pn_connection_wake", link)>>

\* case PN_PROACTOR_TIMEOUT.  The proactor delivers the event first in a batch of
\* its own.  pn_link_session reads through app->sender, which is NULL: undefined,
\* the process either dies in that call or the three calls go through and wake
\* nothing.
ProactorTimeout(dies) ==
  /\ loop = "batch"
  /\ lastEv.type = "NONE"
  /\ dies => sender = 0
  /\ lastEv' = Event("PN_PROACTOR_TIMEOUT", 0, FALSE,
                     IF dies THEN SubSeq(timeout_calls(sender), 1, 1)
                     ELSE timeout_calls(sender))
  /\ loop' = IF dies THEN "crashed" ELSE loop
  /\ UNCHANGED <<app, exit_code, listener, conn, sentLog, granted, hist>>
  /\ UNCHANGED go

\* case PN_PROACTOR_INACTIVE: handle() returns false and run() returns.
ProactorInactive ==
  /\ loop = "batch"
  /\ listener = "closed"
  /\ \A c \in Conns : conn[c].phase \in {"none", "tclosed"}
  /\ Handled(Event("PN_PROACTOR_INACTIVE", 0, FALSE, <<>>))
  /\ UNCHANGED <<app, exit_code, listener, conn, sentLog, granted, hist>>
  /\ UNCHANGED go

\* default: an event without a link (here PN_TRANSPORT): nothing is done.
OtherEvent(c) ==
  /\ loop = "batch"
  /\ conn[c].phase \in {"bound", "ropen", "sopen", "lopen", "lclosed", "sclosed", "cclosed"}
  /\ Handled(Event("PN_TRANSPORT", 0, FALSE, <<>>))
  /\ UNCHANGED <<app, exit_code, listener, conn, sentLog, granted, hist>>
  /\ UNCHANGED go

\* ------------------------------------------- handle(): link-related events
\* IsSender that takes every link for a receiving link.
IsSender_Never(c) == FALSE

\* pn_link_is_sender(l)
IsSender(c) == c.role = "sender"

\* handle_send, case PN_LINK_REMOTE_OPEN
send_remote_open ==
  <<Call("pn_terminus_set_address", 0), Call("pn_link_open", 0)>>

\* handle_receive, case PN_LINK_REMOTE_OPEN
receive_remote_open(count) ==
  <<Call("pn_link_open", 0), Call("pn_link_flow", InitialCredit(count))>>

\* default: PN_LINK_REMOTE_OPEN.  The peer attaches a link; `role` is the local role.
LinkRemoteOpen(c, role) ==
  /\ loop = "batch"
  /\ conn[c].phase = "sopen"
  /\ LET c0  == [conn[c] EXCEPT !.role = role]
         ops == IF IsSender(c0) THEN send_remote_open
                ELSE receive_remote_open(message_count)
     IN /\ conn' = [conn EXCEPT ![c] = [ApplyCalls(c0, ops) EXCEPT !.phase = "lopen"]]
        /\ Handled(Event("PN_LINK_REMOTE_OPEN", c, FALSE, ops))
  /\ UNCHANGED <<app, exit_code, listener, sentLog, granted, hist>>
  /\ UNCHANGED go

\* handle_send, case PN_LINK_FLOW, on a link whose credit is `credit`.
send_flow(credit, len) ==
  SendLoop([credit |-> credit, sent |-> sent, buf |-> message_buffer,
            log |-> sentLog, ops |-> <<>>, nocredit |-> hist.noCredit],
           message_count, [n \in 1 .. (sent + credit + message_count + 1) |-> len])

\* default: PN_LINK_FLOW.  On a sending link the peer's flow frame adds g credit;
\* every message of the drain needs len bytes.
LinkFlow(c, g, len) ==
  /\ loop = "batch"
  /\ conn[c].phase = "lopen"
  /\ IF IsSender(conn[c])
     THEN /\ granted + g <= MaxGranted
          /\ LET c0 == [conn[c] EXCEPT !.credit = @ + g]
                 st == send_flow(c0.credit, len)
             IN /\ conn' = [conn EXCEPT ![c] = ApplyCalls(c0, st.ops)]
                /\ sent' = st.sent
                /\ message_buffer' = st.buf
                /\ sentLog' = st.log
                /\ hist' = [hist EXCEPT !.noCredit = st.nocredit]
                /\ Handled(Event("PN_LINK_FLOW", c, FALSE, st.ops))
          /\ granted' = granted + g
          /\ UNCHANGED <<message_count, acknowledged, received, exit_code, listener>>
     ELSE /\ g = 0 /\ len = ShortLen
          /\ Handled(Event("PN_LINK_FLOW", c, FALSE, <<>>))
          /\ UNCHANGED <<app, exit_code, listener, conn, sentLog, granted, hist>>
  /\ UNCHANGED go

\* handle_send, case PN_DELIVERY: the counter and the calls.
send_delivery(remote_state) ==
  IF remote_state = "PN_ACCEPTED"
  THEN [acknowledged |-> acknowledged + 1,
        ops |-> IF AckDone(acknowledged + 1, message_count)
                THEN <<Call("pn_connection_close", 0)>> ELSE <<>>]
  ELSE [acknowledged |-> acknowledged, ops |-> <<>>]

\* handle_receive, case PN_DELIVERY, on a link whose state is c0.
receive_delivery(c0, readable, partial, decodes) ==
  IF delivery_complete(readable, partial)
  THEN LET accept == decode_message(decodes) \o AcceptCalls
           c1     == ApplyCalls(c0, accept)
       IN IF message_count = 0
          THEN [received |-> received,
                ops |-> accept \o
                        (IF NeedCredit(c1.credit)
                         THEN <<Call("pn_link_flow", Replenish(c1.credit))>>
                         ELSE <<>>),
                closes |-> FALSE]
          ELSE [received |-> received + 1,
                ops |-> accept \o
                        (IF ReceiveDone(received + 1, message_count)
                         THEN CloseCalls ELSE <<>>),
                closes |-> ReceiveDone(received + 1, message_count)]
  ELSE [received |-> received, ops |-> <<>>, closes |-> FALSE]

\* default: PN_DELIVERY.  On a sending link the peer reports the outcome of one
\* unsettled delivery; on a receiving link a transfer frame arrived (the delivery is
\* readable, and partial until its last frame), or the event is for a delivery that
\* is not the current one (not readable); `decodes` tells whether the body of a
\* complete delivery is a well-formed message.
Delivery(c, remote_state, readable, partial, decodes) ==
  /\ loop = "batch"
  /\ conn[c].phase = "lopen"
  /\ IF IsSender(conn[c])
     THEN /\ conn[c].unacked > 0
          /\ readable = FALSE /\ partial = FALSE /\ decodes = TRUE
          /\ LET c0 == [conn[c] EXCEPT !.unacked = @ - 1]
                 r  == send_delivery(remote_state)
                 ok == remote_state = "PN_ACCEPTED"
             IN /\ conn' = [conn EXCEPT ![c] = ApplyCalls(c0, r.ops)]
                /\ acknowledged' = r.acknowledged
                /\ hist' = [hist EXCEPT
                              !.accepted = IF ok THEN @ + 1 ELSE @,
                              !.sendCloses = IF r.ops # <<>> THEN @ + 1 ELSE @]
                /\ Handled(Event("PN_DELIVERY", c, FALSE,
                                 <<Call("remote_state", remote_state)>> \o r.ops))
          /\ UNCHANGED <<message_count, sent, received, message_buffer, exit_code,
                         listener, sentLog, granted>>
     ELSE /\ remote_state = "NONE"
          /\ partial => readable
          /\ readable => conn[c].credit > 0
          /\ decodes \/ delivery_complete(readable, partial)
          /\ LET r == receive_delivery(conn[c], readable, partial, decodes)
             IN /\ conn' = [conn EXCEPT ![c] = ApplyCalls(@, r.ops)]
                /\ received' = r.received
                /\ hist' = [hist EXCEPT !.recvCloses = IF r.closes THEN @ + 1 ELSE @]
                /\ Handled(Event("PN_DELIVERY", c, FALSE,
                                 <<Call("readable", readable), Call("partial", partial)>>
                                 \o r.ops))
          /\ UNCHANGED <<message_count, sent, acknowledged, message_buffer, exit_code,
                         listener, sentLog, granted>>
  /\ UNCHANGED go

\* ------------------------------------------------------------------- Next
Next ==
  \/ ProactorWait
  \/ ProactorDone
  \/ ListenerOpen
  \/ \E c \in Conns : ListenerAccept(c)
  \/ \E c \in Conns : ConnectionInit(c)
  \/ \E c \in Conns : ConnectionBound(c)
  \/ \E c \in Conns : ConnectionRemoteOpen(c)
  \/ \E c \in Conns : SessionRemoteOpen(c)
  \/ \E c \in Conns, role \in {"sender", "receiver"} : LinkRemoteOpen(c, role)
  \/ \E c \in Conns, g \in 0 .. MaxGranted : LinkFlow(c, g, ShortLen)
  \/ \E c \in Conns, rs \in {"NONE", "PN_ACCEPTED", "PN_REJECTED"},
        readable \in BOOLEAN, partial \in BOOLEAN, decodes \in BOOLEAN :
       Delivery(c, rs, readable, partial, decodes)
  \/ \E c \in Conns, cond \in BOOLEAN : TransportClosed(c, cond)
  \/ \E c \in Conns, cond \in BOOLEAN : ConnectionRemoteClose(c, cond)
  \/ \E c \in Conns, cond \in BOOLEAN : SessionRemoteClose(c, cond)
  \/ \E c \in Conns, cond \in BOOLEAN,
        type \in {"PN_LINK_REMOTE_CLOSE", "PN_LINK_REMOTE_DETACH"} :
       LinkRemoteClose(c, type, cond)
  \/ \E cond \in BOOLEAN, dies \in BOOLEAN : ListenerClose(cond, dies)
  \/ ProactorInactive
  \/ \E c \in Conns : OtherEvent(c)

Spec == Init /\ [][Next]_vars

\* direct.c never arms the proactor's timer, so Spec has no PN_PROACTOR_TIMEOUT;
\* TimeoutSpec is the program with a proactor that delivers the event at any time.
TimeoutNext ==
  \/ Next
  \/ \E dies \in BOOLEAN : ProactorTimeout(dies)

TimeoutSpec == Init /\ [][TimeoutNext]_vars

\* The Go binding alone: any calls of Link.Send, in any order.
SendSpec == Init /\ [][SendNext]_vars

\* ------------------------------------------------------ a clean sender run
\* One peer attaches a receiving link to the program's sending link, grants credit,
\* accepts what it is sent, answers the program's close and then drops the
\* transport; its close may still carry a condition.
LivePeer == CHOOSE c \in Conns : \A d \in Conns : c <= d

PeerGrants == \E len \in MsgLens : LinkFlow(LivePeer, 1, len)

PeerAccepts == Delivery(LivePeer, "PN_ACCEPTED", FALSE, FALSE, TRUE)

PeerAnswersClose ==
  \E cond \in BOOLEAN :
    /\ conn[LivePeer].cstate = "closed"
    /\ ConnectionRemoteClose(LivePeer, cond)

PeerDropsTransport ==
  \E cond \in BOOLEAN :
    /\ conn[LivePeer].phase = "cclosed"
    /\ TransportClosed(LivePeer, cond)

ListenerCloses == ListenerClose(FALSE, FALSE)

LiveNext ==
  \/ ProactorWait
  \/ ProactorDone
  \/ ListenerOpen
  \/ ListenerAccept(LivePeer)
  \/ ConnectionInit(LivePeer)
  \/ ConnectionBound(LivePeer)
  \/ ConnectionRemoteOpen(LivePeer)
  \/ SessionRemoteOpen(LivePeer)
  \/ LinkRemoteOpen(LivePeer, "sender")
  \/ \E g \in 0 .. MaxGranted, len \in MsgLens : LinkFlow(LivePeer, g, len)
  \/ PeerAccepts
  \/ PeerAnswersClose
  \/ PeerDropsTransport
  \/ ListenerCloses
  \/ ProactorInactive

\* The proactor hands over every pending event in some batch, and run() waits again
\* after every batch.
LiveFairness ==
  /\ WF_vars(ProactorWait)
  /\ SF_vars(ListenerOpen)
  /\ SF_vars(ListenerAccept(LivePeer))
  /\ SF_vars(ConnectionInit(LivePeer))
  /\ SF_vars(ConnectionBound(LivePeer))
  /\ SF_vars(ConnectionRemoteOpen(LivePeer))
  /\ SF_vars(SessionRemoteOpen(LivePeer))
  /\ SF_vars(LinkRemoteOpen(LivePeer, "sender"))
  /\ SF_vars(PeerGrants)
  /\ SF_vars(PeerAccepts)
  /\ SF_vars(PeerAnswersClose)
  /\ SF_vars(PeerDropsTransport)
  /\ SF_vars(ListenerCloses)
  /\ SF_vars(ProactorInactive)

LiveSpec == Init /\ [][LiveNext]_vars /\ LiveFairness

\* The same sender run without the fairness: every encoded length of MsgLens.
SenderSpec == Init /\ [][LiveNext]_vars

\* ================================================================= claims
IsCall(op, name) == op.call = name

HasCall(ops, name) == \E i \in 1 .. Len(ops) : IsCall(ops[i], name)

\* The event handled last is a complete delivery on a receiving link.
CompleteDelivery ==
  /\ lastEv.type = "PN_DELIVERY"
  /\ Len(lastEv.ops) >= 2
  /\ IsCall(lastEv.ops[1], "readable")
  /\ lastEv.ops[1].arg
  /\ ~lastEv.ops[2].arg

TagsDistinct ==
  \A i, j \in 1 .. Len(sentLog) : i # j => sentLog[i].tag # sentLog[j].tag

\* C1 (as amended): with message_count = N the send path never creates more than N
\* deliveries, their tags are pairwise distinct, and all N exist once N acceptances
\* have come; for N > 0 the send path has closed the connection exactly once from
\* the Nth acceptance on and never before it; for N = 0 it creates no delivery and
\* never closes the connection.
C1_SendsCountClosesOnce ==
  /\ sent <= message_count
  /\ Len(sentLog) = sent
  /\ TagsDistinct
  /\ (message_count > 0 /\ hist.accepted >= message_count) => sent = message_count
  /\ hist.sendCloses =
       IF message_count > 0 /\ hist.accepted >= message_count THEN 1 ELSE 0

C1_Witness ==
  /\ message_count >= 2
  /\ Len(sentLog) = message_count
  /\ hist.accepted = message_count
  /\ hist.sendCloses = 1
  /\ \E c \in Conns : IsSender(conn[c]) /\ conn[c].cstate = "closed"

\* C1 as claimed, for every N >= 0: a finished sender run that has received N
\* acceptances has closed the connection once from the send path.
C1_AsClaimed ==
  /\ sent <= message_count
  /\ Len(sentLog) = sent
  /\ TagsDistinct
  /\ hist.accepted < message_count => hist.sendCloses = 0
  /\ hist.sendCloses <= 1
  /\ (loop = "returned" /\ granted > 0 /\ hist.accepted >= message_count)
       => hist.sendCloses = 1

\* C2: with message_count = N > 0 the received counter never exceeds N, whatever
\* the number of receiving links.
C2_ReceivedAtMostCount ==
  message_count > 0 => received <= message_count

\* C3: with message_count = N > 0 the receive path closes link, session and
\* connection, in that order, in the delivery event that makes received = N, not
\* while received < N and not again later.
C3_ClosesAtCountOnce ==
  message_count > 0 =>
    /\ hist.recvCloses = IF received >= message_count THEN 1 ELSE 0
    /\ (CompleteDelivery /\ HasCall(lastEv.ops, "pn_link_close")) =>
         /\ received = message_count
         /\ SubSeq(lastEv.ops, Len(lastEv.ops) - 2, Len(lastEv.ops)) = CloseCalls

\* C4: in unbounded mode a receiving link's credit stays within BATCH/2 .. BATCH
\* after every complete delivery; credit is granted exactly when the credit left
\* is below BATCH/2, and the grant brings it to BATCH.
C4_CreditWithinBatch ==
  (message_count = 0 /\ CompleteDelivery) =>
    LET c == conn[lastEv.conn]
    IN /\ c.credit >= BATCH \div 2
       /\ c.credit <= BATCH
       /\ c.credit > 0
       /\ HasCall(lastEv.ops, "pn_link_flow") =>
            /\ c.credit = BATCH
            /\ lastEv.ops[Len(lastEv.ops)].arg > BATCH - (BATCH \div 2)
       /\ ~HasCall(lastEv.ops, "pn_link_flow") => c.credit < BATCH

C4_Witness ==
  /\ message_count = 0
  /\ CompleteDelivery
  /\ HasCall(lastEv.ops, "pn_link_flow")
  /\ conn[lastEv.conn].credit = BATCH

\* C5: the deliveries in flight, sent - acknowledged, are never negative and never
\* more than the credit peers have granted; every delivery was created while its
\* link had credit.
C5_InFlightWithinCredit ==
  /\ sent - acknowledged >= 0
  /\ sent - acknowledged <= granted
  /\ ~hist.noCredit

C5_Witness ==
  /\ sent = 2
  /\ acknowledged = 1
  /\ granted >= 2

\* C6: when the process has ended, its exit status is 1 exactly when some handled
\* event carried a failure condition.
C6_ExitStatusIsFailure ==
  loop \in {"returned", "crashed"} =>
    ((loop = "returned" /\ exit_code = 1) <=> hist.failSeen)

RemoteCloseTypes ==
  {"PN_CONNECTION_REMOTE_CLOSE", "PN_SESSION_REMOTE_CLOSE",
   "PN_LINK_REMOTE_CLOSE", "PN_LINK_REMOTE_DETACH"}

\* C7: after a remote close of a connection, session or link the handler has closed
\* the owning connection, with or without a condition; the condition adds the
\* failure mark and the handler makes no other call than the connection's close.
C7_RemoteCloseClosesConnection ==
  lastEv.type \in RemoteCloseTypes =>
    /\ conn[lastEv.conn].cstate = "closed"
    /\ lastEv.ops # <<>>
    /\ \A i \in 1 .. Len(lastEv.ops) : IsCall(lastEv.ops[i], "pn_connection_close")
    /\ lastEv.cond => exit_code = 1

C7_Witness ==
  /\ lastEv.type = "PN_LINK_REMOTE_DETACH"
  /\ ~lastEv.cond
  /\ exit_code = 0
  /\ conn[lastEv.conn].cstate = "closed"

C10_TagIsCounterAfterIncrement ==
  \A k \in 1 .. Len(sentLog) :
    /\ sentLog[k].tag = pn_dtag(k)
    /\ sentLog[k].sequence = k

C10_Witness ==
  /\ Len(sentLog) >= 2
  /\ sentLog[1].sequence = 1
  /\ sentLog[2].sequence = 2

\* C10 as claimed: the k-th delivery, k counted from 0, carries tag and sequence k.
C10_AsClaimed ==
  \A k \in 1 .. Len(sentLog) :
    /\ sentLog[k].tag = pn_dtag(k - 1)
    /\ sentLog[k].sequence = k - 1

\* The sender run is complete: everything sent and acknowledged, the connection
\* closed by the send path, run() returned.
SenderDone ==
  /\ loop = "returned"
  /\ sent = message_count
  /\ acknowledged = message_count
  /\ hist.sendCloses = 1

\* C9 (as amended): for N > 0, with a peer that grants credit, accepts every
\* delivery and closes after the program did, and with no event that carries a
\* failure condition, the run reaches sent = acknowledged = N, closes the
\* connection and run() returns with exit code 0.
C9_SenderRunCompletes ==
  (message_count > 0 /\ []~hist.failSeen) => <>(SenderDone /\ exit_code = 0)

C9_Witness ==
  /\ SenderDone
  /\ message_count >= 2
  /\ exit_code = 0

\* C9 as claimed: a sender run that completes with such a peer ends with exit
\* code 0.
C9_AsClaimed ==
  (message_count > 0 /\ SenderDone) => exit_code = 0

\* The handler of ev decoded the body of a complete delivery, and it was malformed.
DecodeFailed(ev) ==
  /\ ev.type = "PN_DELIVERY"
  /\ \E i \in 1 .. Len(ev.ops) : IsCall(ev.ops[i], "pn_message_decode") /\ ~ev.ops[i].arg

\* C11: a complete delivery on a receiving link whose body fails to decode is
\* dropped: its local disposition is not set to accepted, received keeps its value,
\* and the loop goes on with the next event.
C11_DecodeFailureDropped ==
  [][DecodeFailed(lastEv') =>
       /\ ~HasCall(lastEv'.ops, "pn_delivery_update")
       /\ received' = received
       /\ loop' = "batch"]_vars

\* The step dispatches an event: handle() is called.
Dispatch == loop = "batch" /\ lastEv'.type # "NONE"

\* The deliveries a PN_LINK_FLOW handler created: the arguments of its pn_delivery calls.
FirstSent(ev) == ev.ops[1].arg

LastSent(ev) == ev.ops[Len(ev.ops) - 2].arg

Drained(ev) == ev.type = "PN_LINK_FLOW" /\ ev.ops # <<>>

Min(a, b) == IF a <= b THEN a ELSE b

\* The deliveries the handler of ev created.
Emitted(ev) == Cardinality({i \in 1 .. Len(ev.ops) : IsCall(ev.ops[i], "pn_delivery")})

\* C13: handling PN_LINK_FLOW on a sending link whose credit, with what the flow
\* frame added, is c, with sent = s <= message_count = N, creates exactly
\* min(c, N - s) deliveries: sent grows and the credit shrinks by that number, and
\* nothing is created when c = 0 or s = N.
C13_FlowEmitsMin ==
  [][(loop = "batch" /\ lastEv'.type = "PN_LINK_FLOW" /\ IsSender(conn[lastEv'.conn])) =>
       LET k == lastEv'.conn
           c == conn[k].credit + (granted' - granted)
           e == Emitted(lastEv')
       IN /\ sent <= message_count
          /\ e = Min(c, message_count - sent)
          /\ sent' = sent + e
          /\ conn'[k].credit = c - e
          /\ Len(sentLog') = Len(sentLog) + e
          /\ (c = 0 \/ sent = message_count) => (e = 0 /\ lastEv'.ops = <<>>)]_vars

\* A drain that stopped at message_count with credit left over.
C13_Witness ==
  /\ lastEv.type = "PN_LINK_FLOW"
  /\ Emitted(lastEv) = 2
  /\ sent = message_count
  /\ conn[lastEv.conn].credit = 1

\* C14: after PN_LINK_REMOTE_OPEN on a receiving link the link is open and its
\* credit is message_count if that is positive and BATCH (1000) if it is 0; on a
\* sending link the target address is set, the link is open and no credit is
\* granted.
C14_InitialCredit ==
  lastEv.type = "PN_LINK_REMOTE_OPEN" =>
    LET c == conn[lastEv.conn]
    IN /\ c.lstate = "active"
       /\ ~IsSender(c) =>
            /\ c.credit = IF message_count > 0 THEN message_count ELSE 1000
            /\ Len(lastEv.ops) = 2
            /\ IsCall(lastEv.ops[1], "pn_link_open")
            /\ IsCall(lastEv.ops[2], "pn_link_flow")
            /\ lastEv.ops[2].arg = c.credit
       /\ IsSender(c) =>
            /\ c.target
            /\ c.credit = 0
            /\ ~HasCall(lastEv.ops, "pn_link_flow")
            /\ IsCall(lastEv.ops[Len(lastEv.ops)], "pn_link_open")

\* A receiving link attached in bounded mode, next to a sending link.
C14_Witness ==
  /\ lastEv.type = "PN_LINK_REMOTE_OPEN"
  /\ message_count = 2
  /\ ~IsSender(conn[lastEv.conn])
  /\ conn[lastEv.conn].credit = 2
  /\ \E d \in Conns : IsSender(conn[d]) /\ conn[d].target

LinkEventTypes == {"PN_LINK_REMOTE_OPEN", "PN_LINK_FLOW", "PN_DELIVERY"}

\* The handler of ev ran the send logic: it set the target address, drained, or
\* looked at the remote state of a delivery.
SendLogic(ev) ==
  \/ HasCall(ev.ops, "pn_terminus_set_address")
  \/ HasCall(ev.ops, "pn_delivery")
  \/ HasCall(ev.ops, "remote_state")

\* The handler of ev ran the receive logic: it granted credit or looked whether
\* the delivery is readable.
ReceiveLogic(ev) ==
  \/ HasCall(ev.ops, "pn_link_flow")
  \/ HasCall(ev.ops, "readable")

\* C15: a link event runs the send logic only on a link in sender role and the
\* receive logic only on a link in receiver role; sent and acknowledged change
\* only in link events of sending links, received and the credit granted by the
\* program only in link events of receiving links; PN_LINK_FLOW on a receiving
\* link changes nothing.
C15_RoleDispatch ==
  [][LET k    == lastEv'.conn
         link == lastEv'.type \in LinkEventTypes
     IN /\ (sent' # sent \/ acknowledged' # acknowledged \/ sentLog' # sentLog) =>
             link /\ conn'[k].role = "sender"
        /\ received' # received =>
             link /\ conn'[k].role = "receiver"
        /\ (loop = "batch" /\ link) =>
             /\ conn'[k].role \in {"sender", "receiver"}
             /\ SendLogic(lastEv') => conn'[k].role = "sender"
             /\ ReceiveLogic(lastEv') => conn'[k].role = "receiver"
             /\ (conn'[k].role = "sender" /\ lastEv'.type # "PN_LINK_FLOW") =>
                  SendLogic(lastEv')
             /\ (conn'[k].role = "receiver" /\ lastEv'.type # "PN_LINK_FLOW") =>
                  ReceiveLogic(lastEv')
             /\ (conn'[k].role = "receiver" /\ lastEv'.type = "PN_LINK_FLOW") =>
                  /\ lastEv'.ops = <<>>
                  /\ UNCHANGED <<app, conn, exit_code, listener, sentLog>>]_vars

\* PN_LINK_FLOW on a receiving link, in a run that has both sent and received.
C15_Witness ==
  /\ lastEv.type = "PN_LINK_FLOW"
  /\ conn[lastEv.conn].role = "receiver"
  /\ sent > 0
  /\ received > 0

\* The event handled last told a sending link the outcome of one of its deliveries.
OutcomeKnown ==
  /\ lastEv.type = "PN_DELIVERY"
  /\ IsCall(lastEv.ops[1], "remote_state")
  /\ lastEv.ops[1].arg # "NONE"

\* The place of the first call of that name among the calls, 0 if there is none.
CallAt(ops, name) ==
  IF HasCall(ops, name)
  THEN CHOOSE i \in 1 .. Len(ops) :
         IsCall(ops[i], name) /\ \A j \in 1 .. (i - 1) : ~IsCall(ops[j], name)
  ELSE 0

\* C16: the handler that learns the outcome of a delivery settles it: on a sending
\* link when the peer's disposition arrives, on a receiving link in the handler
\* that accepts it, after the accept and the advance.
C16_DeliveriesSettled ==
  /\ OutcomeKnown => HasCall(lastEv.ops, "pn_delivery_settle")
  /\ CompleteDelivery =>
       /\ CallAt(lastEv.ops, "pn_delivery_update") > 0
       /\ CallAt(lastEv.ops, "pn_link_advance") > CallAt(lastEv.ops, "pn_delivery_update")
       /\ CallAt(lastEv.ops, "pn_delivery_settle") > CallAt(lastEv.ops, "pn_link_advance")

\* The handler of ev passed a null link to the engine.
UsesNullLink(ev) ==
  \E i \in 1 .. Len(ev.ops) : IsCall(ev.ops[i], "pn_link_session") /\ ev.ops[i].arg = 0

\* C17: handling PN_PROACTOR_TIMEOUT wakes a connection only if app.sender is set
\* and does nothing otherwise: it never passes an unset link to the engine, the
\* loop goes on, and the counters and the endpoints keep their values.
C17_TimeoutWakeGuarded ==
  [][(loop = "batch" /\ lastEv'.type = "PN_PROACTOR_TIMEOUT") =>
       /\ ~UsesNullLink(lastEv')
       /\ HasCall(lastEv'.ops, "pn_connection_wake") => sender # 0
       /\ loop' = "batch"
       /\ UNCHANGED <<app, conn, exit_code, listener>>]_vars

\* cap is prev doubled some number of times, possibly none.
RECURSIVE IsDoubled(_, _)
IsDoubled(prev, cap) == cap = prev \/ (cap > prev /\ IsDoubled(prev * 2, cap))

\* The encoded length of the messages the handler of ev sent.
SentLen(ev) == ev.ops[2].arg

\* C18: the encode buffer is 128 bytes at its first use and is only ever doubled:
\* after a drain whose messages need L bytes its size is the least size >= L among
\* the size before (128 if there was none) doubled k >= 0 times; the size never
\* shrinks and changes only when a message is encoded; a message of 300 bytes on a
\* fresh buffer takes it through 128, 256, 512.
C18_BufferDoubles ==
  [][/\ message_buffer' >= message_buffer
     /\ sent' = sent => message_buffer' = message_buffer
     /\ sent' > sent =>
          LET prev == IF message_buffer = 0 THEN 128 ELSE message_buffer
              L    == SentLen(lastEv')
          IN /\ IsDoubled(prev, message_buffer')
             /\ message_buffer' >= L
             /\ message_buffer' = prev \/ message_buffer' \div 2 < L
             /\ (message_buffer = 0 /\ L = 300) => message_buffer' = 512
     /\ GrowSizes(initial_size, 300) = <<128, 256, 512>>
     /\ encode_buffer(0, 300) = 512]_vars

\* The first message of the run was a long one and doubled the fresh buffer twice.
C18_Witness ==
  /\ Drained(lastEv)
  /\ sent = 1
  /\ SentLen(lastEv) = LongLen
  /\ message_buffer = 4 * initial_size

\* The handler of ev got a delivery on a receiving link that is not readable or is
\* still partial.
IncompleteDelivery(ev) ==
  /\ ev.type = "PN_DELIVERY"
  /\ IsCall(ev.ops[1], "readable")
  /\ ~ev.ops[1].arg \/ ev.ops[2].arg

\* C19: PN_DELIVERY on a receiving link for a delivery that is not readable or is
\* partial makes no engine call and changes nothing: no accept, advance or settle,
\* received and the credit as before, no endpoint closed, and the loop goes on.
C19_IncompleteDeliveryNoEffect ==
  [][(loop = "batch" /\ IncompleteDelivery(lastEv')) =>
       /\ Len(lastEv'.ops) = 2
       /\ loop' = "batch"
       /\ UNCHANGED <<app, conn, exit_code, listener, sentLog, granted, hist>>]_vars

\* A partial delivery was handled on a link that has credit, after a complete one.
C19_Witness ==
  /\ IncompleteDelivery(lastEv)
  /\ lastEv.ops[2].arg
  /\ received = 1
  /\ conn[lastEv.conn].credit > 0
  /\ conn[lastEv.conn].lstate = "active"

\* The tags of all deliveries Send created, link after link.
AllTags == links[1].deliveries \o links[2].deliveries \o links[3].deliveries

\* C20: Link.Send on a link in receiver role returns an error and leaves the link
\* and the tag counter as they were: no delivery, no tag taken, nothing sent, no
\* advance.  On a link in sender role each call takes the next tag of the shared
\* counter for the one delivery it creates, and no two deliveries of any links
\* carry the same tag.
C20_SendRefusedOrFreshTag ==
  [][/\ (sendRet'.link \in GoLinks /\ ~IsSenderLink(sendRet'.link)) =>
          /\ sendRet'.err = "attempt to send message on receiving link"
          /\ sendRet'.delivery = <<>>
          /\ UNCHANGED <<tags, links>>
     /\ links'[3] = NewLink
     /\ (tags' # tags \/ links' # links) =>
          LET l == sendRet'.link
          IN /\ IsSenderLink(l)
             /\ tags' = tags + 1
             /\ Len(links'[l].deliveries) = Len(links[l].deliveries) + 1
             /\ \A i \in 1 .. Len(AllTags) :
                  AllTags[i] # links'[l].deliveries[Len(links'[l].deliveries)]
             /\ \A k \in GoLinks \ {l} : links'[k] = links[k]
     /\ \A i, j \in 1 .. Len(AllTags') : i # j => AllTags'[i] # AllTags'[j]
     /\ Len(AllTags') = tags']_vars

\* A refused Send on the receiving link after deliveries on both sending links.
C20_Witness ==
  /\ sendRet.link = 3
  /\ sendRet.err = "attempt to send message on receiving link"
  /\ links[1].deliveries # <<>>
  /\ links[2].deliveries # <<>>
  /\ links[3] = NewLink
  /\ tags = MaxSends

====
